---- MODULE Spec2Model ----
(***************************************************************************)
(* A model of objparser.py: the AnalyzeSpatialMap class, its from_file     *)
(* decoder (header, object table, run-length encoded volumes) and get_data.*)
(*                                                                         *)
(* The map instance is the state (the attributes __init__ sets), together  *)
(* with the frame of the from_file call in progress.  from_file is cut     *)
(* into its steps: the header block, one object record per step, the read  *)
(* of the RLE region, and the steps of its three nested loops.  The frame  *)
(* is discarded when the call returns or raises.                           *)
(*                                                                         *)
(* The file is the environment's.  It is read strictly forward, so the     *)
(* bytes a read returns are chosen when the read happens: a fixed-width    *)
(* read returns fewer bytes than asked only at the end of the file, after  *)
(* which every read returns b''.  In the same way a run pair of the RLE    *)
(* region is fixed when the decoder first indexes it (the run index only   *)
(* grows, so each pair is indexed at most once); the number of pairs is    *)
(* fixed when the region is read.                                          *)
(***************************************************************************)
EXTENDS Integers, Sequences, FiniteSets, TLC

VARIABLES
    \* the attributes of the AnalyzeSpatialMap instance
    version_code, version, width, height, depth, n_objects, n_vols,
    objects, vols,
    \* the frame of from_file
    pc, header, obj_i, n_pairs, maps_rle, i, vol_k, slice_num, temp_vol,
    pixel_num, temp_slice, mult, num,
    \* the file being read: TRUE once a fixed-width read found it ended
    eof,
    \* how the last from_file call ended, and the exception it raised
    outcome, exc,
    \* the last get_data call: its index and what it returned or raised
    got,
    \* history: the attributes when the current from_file call began, the
    \* volumes in the order their decoding completed, the number of run
    \* writes each position of the current slice has received, the slices
    \* stored by the current call (volume, depth index, writes, values) in
    \* the order they were stored, the number of from_file calls made
    \* on the instance
    pre, decoded, slice_hits, filled, calls,
    \* the family of inputs the environment draws from (see InitScopes)
    scope

self_vars == <<version_code, version, width, height, depth, n_objects,
               n_vols, objects, vols>>

frame_vars == <<pc, header, obj_i, n_pairs, maps_rle, i, vol_k, slice_num,
                temp_vol, pixel_num, temp_slice, mult, num>>

hist_vars == <<pre, decoded, slice_hits, filled, calls, scope>>

vars == <<self_vars, frame_vars, eof, outcome, exc, got, hist_vars>>

-----------------------------------------------------------------------------
(* Bounds of the model.                                                    *)

\* from_file calls on one instance, in the "reuse" scope
MaxCalls == 2
\* width, height and depth of a header, in the "decode" scope
MaxDim == 2
\* run pairs in the RLE region of a file
MaxRuns == 3
\* object_count of a header
MaxObjects == 1

\* version_code < 20050829 selects version 6
VersionThreshold == 20050829

-----------------------------------------------------------------------------
(* Bytes and the conversions the parser applies to them.                   *)

Min(a, b) == IF a <= b THEN a ELSE b

Max(a, b) == IF a >= b THEN a ELSE b

\* f.read(n) at offset pos of buf: at most n bytes, fewer at the end
Read(buf, pos, n) ==
    SubSeq(buf, Min(pos, Len(buf)) + 1, Min(pos + n, Len(buf)))

\* int.from_bytes(bs, byteorder='big', signed=False); b'' gives 0
RECURSIVE IntFromBytesBig(_)
IntFromBytesBig(bs) ==
    IF bs = <<>> THEN 0
    ELSE 256 * IntFromBytesBig(SubSeq(bs, 1, Len(bs) - 1)) + bs[Len(bs)]

\* bytecode.split(b'\x00')[0]: the bytes before the first null byte
RECURSIVE SplitNull(_)
SplitNull(bs) ==
    IF bs = <<>> \/ bs[1] = 0 THEN <<>>
    ELSE <<bs[1]>> \o SplitNull(Tail(bs))

IsCont(b) == b >= 128 /\ b <= 191

\* bytes.decode('utf-8'), strict: [err |-> FALSE, text |-> the code points],
\* or err = TRUE for UnicodeDecodeError
RECURSIVE Utf8Decode(_)
Utf8Decode(bs) ==
    IF bs = <<>> THEN [err |-> FALSE, text |-> <<>>]
    ELSE
      LET b1 == bs[1]
          n  == Len(bs)
          need == IF b1 < 128 THEN 1
                  ELSE IF b1 >= 194 /\ b1 <= 223 THEN 2
                  ELSE IF b1 >= 224 /\ b1 <= 239 THEN 3
                  ELSE IF b1 >= 240 /\ b1 <= 244 THEN 4
                  ELSE 0
          ok == /\ need > 0
                /\ n >= need
                /\ \A k \in 2..need : IsCont(bs[k])
                /\ (b1 = 224 => bs[2] >= 160)
                /\ (b1 = 237 => bs[2] <= 159)
                /\ (b1 = 240 => bs[2] >= 144)
                /\ (b1 = 244 => bs[2] <= 143)
          cp == IF need = 1 THEN b1
                ELSE IF need = 2 THEN (b1 - 192) * 64 + (bs[2] - 128)
                ELSE IF need = 3
                  THEN (b1 - 224) * 4096 + (bs[2] - 128) * 64 + (bs[3] - 128)
                ELSE (b1 - 240) * 262144 + (bs[2] - 128) * 4096
                     + (bs[3] - 128) * 64 + (bs[4] - 128)
      IN IF ~ok THEN [err |-> TRUE, text |-> <<>>]
         ELSE LET rest == Utf8Decode(SubSeq(bs, need + 1, n))
              IN IF rest.err THEN rest
                 ELSE [err |-> FALSE, text |-> <<cp>> \o rest.text]

\* _read_nts
ReadNts(bytecode) == Utf8Decode(SplitNull(bytecode))

\* struct.unpack('f', bs): a 1-tuple holding the float whose native-order
\* encoding is the 4 bytes (kept as those bytes); struct.error (err = TRUE)
\* unless bs has exactly 4 bytes
StructUnpackF(bs) ==
    IF Len(bs) = 4 THEN [err |-> FALSE, val |-> <<bs>>]
    ELSE [err |-> TRUE, val |-> <<>>]

-----------------------------------------------------------------------------
(* The object record: the fields from_file reads, in order, with the       *)
(* number of bytes each read asks for.                                     *)

FieldNames ==
    << "name", "display_flag", "copy_flag", "mirror", "status", "n_used",
       "shades", "s_red", "s_green", "s_blue", "e_red", "e_green", "e_blue",
       "x_rot", "y_rot", "z_rot", "x_shift", "y_shift", "z_shift",
       "x_center", "y_center", "z_center", "i_xrot", "i_yrot", "i_zrot",
       "i_xshift", "i_yshift", "i_zshift", "min_x", "min_y", "min_z",
       "max_x", "max_y", "max_z", "opacity", "opacity_thick", "blendfactor" >>

FieldWidths ==
    << 32, 4, 1, 1, 1, 1,
       4, 4, 4, 4, 4, 4, 4,
       4, 4, 4, 4, 4, 4,
       4, 4, 4, 4, 4, 4,
       4, 4, 4, 2, 2, 2,
       2, 2, 2, 4, 4, 4 >>

NFields == Len(FieldNames)

RECURSIVE FieldOffset(_)
FieldOffset(k) == IF k = 1 THEN 0 ELSE FieldOffset(k - 1) + FieldWidths[k - 1]

RecordSize == FieldOffset(NFields) + FieldWidths[NFields]

FieldIndex(f) == CHOOSE k \in 1..NFields : FieldNames[k] = f

\* the bytes the read of field f returns, rec being what is left of the file
FieldBytes(rec, f) ==
    Read(rec, FieldOffset(FieldIndex(f)), FieldWidths[FieldIndex(f)])

\* One iteration of the object loop on the bytes rec: the SpatialObject it
\* builds, or the exception it raises (the name is decoded first, the two
\* floats are unpacked near the end).
ParseObject(rec) ==
    LET nm == ReadNts(FieldBytes(rec, "name"))
        op == StructUnpackF(FieldBytes(rec, "opacity"))
        bf == StructUnpackF(FieldBytes(rec, "blendfactor"))
        obj == [f \in {FieldNames[k] : k \in 1..NFields} |->
                  IF f = "name" THEN nm.text
                  ELSE IF f = "opacity" THEN op.val
                  ELSE IF f = "blendfactor" THEN bf.val
                  ELSE IntFromBytesBig(FieldBytes(rec, f))]
    IN IF nm.err THEN [exc |-> "UnicodeDecodeError", obj |-> obj]
       ELSE IF op.err \/ bf.err THEN [exc |-> "struct.error", obj |-> obj]
       ELSE [exc |-> "", obj |-> obj]

-----------------------------------------------------------------------------
(* numpy arrays: a shape and the elements in C order.                      *)

Product(shape) ==
    IF Len(shape) = 1 THEN shape[1] ELSE shape[1] * shape[2] * shape[3]

\* np.zeros(shape)
Zeros(shape) == [shape |-> shape, data |-> [k \in 1..Product(shape) |-> 0]]

\* the length of a[start:stop] for an array of n elements, 0 <= start
SliceLen(n, start, stop) == Max(0, Min(stop, n) - Min(start, n))

\* A faulty CanBroadcast, which C3 must tell from it: values that do not
\* fit are cut to the slice instead of refused.
CanBroadcastClipped(src, dst) == src >= dst

\* Whether an array of src elements can be assigned to a slice of dst
\* elements: equal lengths, or a single element, which broadcasts.
CanBroadcast(src, dst) == src = dst \/ src = 1

\* a[start:stop] = np.repeat(num, mult), once the assignment is known to fit
AssignRun(a, start, stop, v) ==
    [k \in 1..Len(a) |->
        IF k > Min(start, Len(a)) /\ k <= Min(stop, Len(a)) THEN v ELSE a[k]]

\* temp_vol[:, :, z] = temp_slice.reshape(h, w): element (r, c) of the
\* reshaped slice is temp_slice[r*w + c], and element (r, c, z) of an array
\* of shape (h, w, d) is at C-order position (r*w + c)*d + z.
PlaceSlice(vol, sl, z) ==
    LET d == vol.shape[3]
    IN [vol EXCEPT !.data =
          [k \in 1..Len(vol.data) |->
              IF (k - 1) % d = z THEN sl[((k - 1) \div d) + 1]
              ELSE vol.data[k]]]

\* vol[r, c, z], 0-based
Cell(vol, r, c, z) ==
    vol.data[(r * vol.shape[2] + c) * vol.shape[3] + z + 1]

-----------------------------------------------------------------------------
(* The inputs the environment draws from, in three scopes:                 *)
(*   "header"  one from_file call on a new instance; every header and      *)
(*             object record variant, whole or cut short, with extents     *)
(*             up to 1;                                                    *)
(*   "decode"  one from_file call on a new instance; whole files without   *)
(*             objects, with extents up to MaxDim;                         *)
(*   "reuse"   up to MaxCalls from_file calls on one instance; whole       *)
(*             version 6 files of one voxel.                               *)

Scopes == {"header", "decode", "reuse"}

\* the 4 bytes of n, big-endian
ToBytes4(n) ==
    << (n \div 16777216) % 256, (n \div 65536) % 256, (n \div 256) % 256,
       n % 256 >>

RECURSIVE Flatten(_)
Flatten(ss) == IF ss = <<>> THEN <<>> ELSE ss[1] \o Flatten(Tail(ss))

CallLimit == IF scope = "reuse" THEN MaxCalls ELSE 1

\* the prefixes of the bytes b a read may return: all of b, or, the file
\* ending there, its first c bytes for c among cuts
ReadsOf(b, cuts) ==
    IF scope = "header" THEN {b} \cup { SubSeq(b, 1, c) : c \in cuts }
    ELSE {b}

\* the version codes of the files: either side of the threshold
VersionCodes ==
    IF scope = "reuse" THEN {VersionThreshold - 1}
    ELSE {VersionThreshold - 1, VersionThreshold}

\* what the read of version_code returns
VersionReads == UNION { ReadsOf(ToBytes4(vc), {0, 2}) : vc \in VersionCodes }

\* the extents a header declares
Dims ==
    IF scope = "decode" THEN 0..MaxDim
    ELSE IF scope = "header" THEN 0..1
    ELSE {1}

\* the object counts a header declares
ObjectCounts == IF scope = "decode" THEN {0} ELSE 0..MaxObjects

\* the 5th header integer of a version 7 file
VolCounts == {0, 1, 2}

\* what the reads of the header integers return, n of them being read
HeaderReads(n) ==
    UNION { ReadsOf(Flatten(<<ToBytes4(w), ToBytes4(h), ToBytes4(d),
                              ToBytes4(no)>>
                            \o (IF n = 5 THEN <<ToBytes4(nv)>> ELSE <<>>)),
                    {0, 6, 4 * n - 1}) :
              <<w, h, d, no, nv>> \in
                 Dims \X Dims \X Dims \X ObjectCounts \X
                 (IF n = 5 THEN VolCounts ELSE {1}) }

\* object names: "A" followed by bytes the split discards, the empty name,
\* a two-byte character, a byte that is not UTF-8
NameFields ==
    IF scope = "header"
    THEN { <<65, 0, 66>>, <<>>, <<195, 169>>, <<255, 65>> }
    ELSE { <<65, 0, 66>> }

\* a record: the name padded with nulls to its width, then the other fields
RecordOf(name) ==
    [k \in 1..RecordSize |->
        IF k <= Len(name) THEN name[k]
        ELSE IF k <= FieldWidths[1] THEN 0
        ELSE k % 3]

\* what the reads of one object record return
ObjectReads ==
    UNION { ReadsOf(RecordOf(nm), {0, 40, RecordSize - 2}) :
              nm \in NameFields }

\* the run lengths and values of the RLE region
RunLengths == {0, 1, 2, 4, 255}

Values == {7, 9}

\* get_data indices
Indices == -1..MaxCalls

-----------------------------------------------------------------------------
(* The state.                                                              *)

NoArray == Zeros(<<0>>)

NoResult == [kind |-> "none", idx |-> 0, vol |-> NoArray]

Attributes ==
    [version_code |-> version_code, version |-> version, width |-> width,
     height |-> height, depth |-> depth, n_objects |-> n_objects,
     n_vols |-> n_vols, objects |-> objects, vols |-> vols]

\* no frame: the values the frame variables have outside a call
NoFrame ==
    /\ header = <<>> /\ obj_i = 0 /\ n_pairs = 0
    /\ maps_rle = <<>> /\ i = 0 /\ vol_k = 0 /\ slice_num = 0
    /\ temp_vol = NoArray /\ pixel_num = 0 /\ temp_slice = <<>>
    /\ mult = 0 /\ num = 0
    /\ eof = FALSE /\ slice_hits = <<>> /\ filled = <<>>

\* __init__ without a file: the attributes, no call made
InitScope(sc) ==
    /\ version_code = 0 /\ version = 0
    /\ width = 0 /\ height = 0 /\ depth = 0
    /\ n_objects = 0 /\ n_vols = 1
    /\ objects = <<>> /\ vols = <<>>
    /\ pc = "idle"
    /\ NoFrame
    /\ outcome = "none" /\ exc = ""
    /\ got = NoResult
    /\ pre = Attributes
    /\ decoded = <<>> /\ calls = 0
    /\ scope = sc

Init == \E sc \in Scopes : InitScope(sc)

\* the call ends (how: "returned" or "raised", with exception e) and its
\* frame is discarded
Leave(how, e) ==
    /\ pc' = "idle" /\ outcome' = how /\ exc' = e
    /\ header' = <<>> /\ obj_i' = 0 /\ n_pairs' = 0
    /\ maps_rle' = <<>> /\ i' = 0 /\ vol_k' = 0 /\ slice_num' = 0
    /\ temp_vol' = NoArray /\ pixel_num' = 0 /\ temp_slice' = <<>>
    /\ mult' = 0 /\ num' = 0
    /\ eof' = FALSE /\ slice_hits' = <<>> /\ filled' = <<>>

Raise(e) == Leave("raised", e)

\* the two ValueErrors numpy raises in from_file
ReshapeError == "ValueError: cannot reshape array"

BroadcastError == "ValueError: could not broadcast input array"

-----------------------------------------------------------------------------
(* from_file, lines 123-145: open, version_code, the header integers.      *)

\* the version and the number of header integers for a version code
VersionOf(vc) == IF vc < VersionThreshold THEN 6 ELSE 7

HeaderInts(vc) == IF vc < VersionThreshold THEN 4 ELSE 5

\* n_vols after the header: header[4] when the version is above 7
VolsAfterHeader(ver, hdr, old) == IF ver > 7 THEN hdr[5] ELSE old

EnterCall ==
    /\ pc = "idle"
    /\ calls < CallLimit
    /\ calls' = calls + 1
    /\ pre' = Attributes
    /\ got' = NoResult
    /\ UNCHANGED <<decoded, scope>>

\* open() fails: nothing is read
FromFileMissing ==
    /\ EnterCall
    /\ Raise("FileNotFoundError")
    /\ UNCHANGED self_vars

FromFileHeader ==
    /\ EnterCall
    /\ \E vb \in VersionReads :
         LET vc == IntFromBytesBig(vb)
             n  == HeaderInts(vc)
         IN \E hb \in (IF Len(vb) < 4 THEN {<<>>} ELSE HeaderReads(n)) :
              LET hdr == [k \in 1..n |->
                            IntFromBytesBig(Read(hb, 4 * (k - 1), 4))]
              IN /\ version_code' = vc
                 /\ version' = VersionOf(vc)
                 /\ header' = hdr
                 /\ width' = hdr[1] /\ height' = hdr[2] /\ depth' = hdr[3]
                 /\ n_objects' = hdr[4]
                 /\ n_vols' = VolsAfterHeader(VersionOf(vc), hdr, n_vols)
                 /\ eof' = (Len(vb) < 4 \/ Len(hb) < 4 * n)
    /\ pc' = "objects"
    /\ outcome' = "none" /\ exc' = ""
    /\ UNCHANGED <<objects, vols, obj_i, n_pairs, maps_rle, i, vol_k,
                   slice_num, temp_vol, pixel_num, temp_slice, mult, num,
                   slice_hits, filled>>

-----------------------------------------------------------------------------
(* from_file, lines 149-200: one object record per step.                   *)

ReadObject ==
    /\ pc = "objects"
    /\ obj_i < n_objects
    /\ \E rec \in (IF eof THEN {<<>>} ELSE ObjectReads) :
         LET r == ParseObject(rec)
         IN IF r.exc # ""
            THEN /\ Raise(r.exc)
                 /\ UNCHANGED objects
            ELSE /\ objects' = Append(objects, r.obj)
                 /\ obj_i' = obj_i + 1
                 /\ eof' = (eof \/ Len(rec) < RecordSize)
                 /\ UNCHANGED <<pc, outcome, exc, header, n_pairs, maps_rle,
                                i, vol_k, slice_num, temp_vol, pixel_num,
                                temp_slice, mult, num, slice_hits, filled>>
    /\ UNCHANGED <<version_code, version, width, height, depth, n_objects,
                   n_vols, vols, got, pre, decoded, calls, scope>>

-----------------------------------------------------------------------------
(* from_file, lines 203-226: the RLE region and the three nested loops.    *)

\* line 203-204: the rest of the file, as rows of two bytes
ReadRle ==
    /\ pc = "objects"
    /\ obj_i >= n_objects
    /\ \E rest \in (IF eof THEN {0} ELSE 0..(2 * MaxRuns + 1)) :
         IF rest % 2 # 0
         THEN Raise(ReshapeError)
         ELSE /\ n_pairs' = rest \div 2
              /\ maps_rle' = <<>> /\ i' = 0 /\ vol_k' = 0
              /\ pc' = "vol"
              /\ UNCHANGED <<outcome, exc, header, obj_i, slice_num,
                             temp_vol, pixel_num, temp_slice, mult, num, eof,
                             slice_hits, filled>>
    /\ UNCHANGED <<self_vars, got, pre, decoded, calls, scope>>

\* line 207-209: the next volume of range(n_vols)
BeginVolume ==
    /\ pc = "vol"
    /\ vol_k < n_vols
    /\ slice_num' = 0
    /\ temp_vol' = Zeros(<<height, width, depth>>)
    /\ pc' = "slice"
    /\ UNCHANGED <<self_vars, header, obj_i, n_pairs, maps_rle, i, vol_k,
                   pixel_num, temp_slice, mult, num, eof, outcome, exc, got,
                   hist_vars>>

\* range(n_vols) is exhausted: from_file returns (verbose is 0)
Return ==
    /\ pc = "vol"
    /\ vol_k >= n_vols
    /\ Leave("returned", "")
    /\ UNCHANGED <<self_vars, got, pre, decoded, calls, scope>>

\* line 212-214: the next slice
BeginSlice ==
    /\ pc = "slice"
    /\ slice_num < depth
    /\ pixel_num' = 0
    /\ temp_slice' = Zeros(<<width * height>>).data
    /\ slice_hits' = Zeros(<<width * height>>).data
    /\ pc' = "pixel"
    /\ UNCHANGED <<self_vars, header, obj_i, n_pairs, maps_rle, i, vol_k,
                   slice_num, temp_vol, mult, num, eof, outcome, exc, got,
                   pre, decoded, filled, calls, scope>>

\* line 226: the slices are done, the volume is appended
AppendVolume ==
    /\ pc = "slice"
    /\ slice_num >= depth
    /\ vols' = Append(vols, temp_vol)
    /\ decoded' = Append(decoded, temp_vol)
    /\ vol_k' = vol_k + 1
    /\ pc' = "vol"
    /\ UNCHANGED <<version_code, version, width, height, depth, n_objects,
                   n_vols, objects, header, obj_i, n_pairs, maps_rle, i,
                   slice_num, temp_vol, pixel_num, temp_slice, mult, num,
                   eof, outcome, exc, got, pre, slice_hits, filled, calls,
                   scope>>

\* maps_rle[idx, :] of an array of n rows, idx >= 0: IndexError past the end
RowInBounds(idx, n) == idx < n

\* line 217: mult, num = maps_rle[i, :].  A row already indexed is what it
\* was; a row indexed for the first time is fixed now.
FetchRun ==
    /\ pc = "pixel"
    /\ pixel_num < width * height
    /\ IF ~RowInBounds(i, n_pairs)
       THEN Raise("IndexError")
       ELSE /\ \E m \in RunLengths, v \in Values :
                 LET row == IF i < Len(maps_rle) THEN maps_rle[i + 1]
                            ELSE <<m, v>>
                 IN /\ mult' = row[1] /\ num' = row[2]
                    /\ maps_rle' = IF i < Len(maps_rle) THEN maps_rle
                                   ELSE Append(maps_rle, row)
            /\ pc' = "run"
            /\ UNCHANGED <<outcome, exc, header, obj_i, n_pairs, i, vol_k,
                           slice_num, temp_vol, pixel_num, temp_slice, eof,
                           slice_hits, filled>>
    /\ UNCHANGED <<self_vars, got, pre, decoded, calls, scope>>

\* A faulty NextPixel, which C9 must tell from it: the position advances
\* one short of a run longer than 1.
NextPixelShort(p, m) == IF m > 1 THEN p + m - 1 ELSE p + m

\* pixel_num += mult
NextPixel(p, m) == p + m

\* i += 1
NextRun(idx, m) == idx + 1

\* line 219-221: the mult copies of num are assigned to
\* temp_slice[pixel_num:pixel_num+mult], which numpy clips to the array and
\* refuses (ValueError) when the lengths differ.  pixel_num + mult is
\* computed without wrapping while width*height <= 255.
ApplyRun ==
    /\ pc = "run"
    /\ LET stop == pixel_num + mult
           dst  == SliceLen(Len(temp_slice), pixel_num, stop)
       IN IF ~CanBroadcast(mult, dst)
          THEN Raise(BroadcastError)
          ELSE /\ temp_slice' = AssignRun(temp_slice, pixel_num, stop, num)
               /\ slice_hits' =
                    [k \in 1..Len(slice_hits) |->
                       IF k > pixel_num /\ k <= stop
                       THEN slice_hits[k] + 1 ELSE slice_hits[k]]
               /\ pixel_num' = NextPixel(pixel_num, mult)
               /\ i' = NextRun(i, mult)
               /\ pc' = "pixel"
               /\ UNCHANGED <<outcome, exc, header, obj_i, n_pairs, maps_rle,
                              vol_k, slice_num, temp_vol, mult, num, eof,
                              filled>>
    /\ UNCHANGED <<self_vars, got, pre, decoded, calls, scope>>

\* line 223-224: the slice is full and goes to its depth index
StoreSlice ==
    /\ pc = "pixel"
    /\ pixel_num >= width * height
    /\ temp_vol' = PlaceSlice(temp_vol, temp_slice, slice_num)
    /\ filled' = Append(filled, [vol |-> vol_k, z |-> slice_num,
                                  hits |-> slice_hits, values |-> temp_slice])
    /\ slice_num' = slice_num + 1
    /\ pc' = "slice"
    /\ UNCHANGED <<self_vars, header, obj_i, n_pairs, maps_rle, i, vol_k,
                   pixel_num, temp_slice, mult, num, eof, outcome, exc, got,
                   pre, decoded, slice_hits, calls, scope>>

-----------------------------------------------------------------------------
(* get_data                                                                *)

\* A faulty ListIndex, which C8 must tell from it: an index past the end is
\* clamped to the last element.
ListIndexClamped(n, idx) ==
    IF n = 0 THEN 0
    ELSE IF idx >= 0 THEN Min(idx, n - 1) + 1
    ELSE IF idx >= -n THEN n + idx + 1
    ELSE 0

\* self.vols[idx] on a list of n elements: the 1-based position, negative
\* indices counting from the end; 0 stands for IndexError
ListIndex(n, idx) ==
    IF idx >= 0 /\ idx < n THEN idx + 1
    ELSE IF idx < 0 /\ idx >= -n THEN n + idx + 1
    ELSE 0

\* what get_data(idx) returns or raises
GetDataOf(idx) ==
    LET k == ListIndex(Len(vols), idx)
    IN IF k = 0 THEN [kind |-> "IndexError", idx |-> idx, vol |-> NoArray]
       ELSE [kind |-> "value", idx |-> idx, vol |-> vols[k]]

GetData ==
    /\ pc = "idle"
    /\ \E idx \in Indices : got' = GetDataOf(idx)
    /\ UNCHANGED <<self_vars, frame_vars, eof, outcome, exc, hist_vars>>

-----------------------------------------------------------------------------
(* The specifications.                                                     *)

\* the steps of a from_file call once it has read the header
Step ==
    \/ ReadObject
    \/ ReadRle
    \/ BeginVolume
    \/ Return
    \/ BeginSlice
    \/ AppendVolume
    \/ FetchRun
    \/ ApplyRun
    \/ StoreSlice

Next ==
    \/ FromFileMissing
    \/ FromFileHeader
    \/ Step
    \/ GetData

Spec == Init /\ [][Next]_vars

\* from_file is straight-line sequential code: a call that has begun takes
\* its next step
FairSpec == Spec /\ WF_vars(Step)

-----------------------------------------------------------------------------
(* Vocabulary of the properties.                                           *)

\* from_file has run to its end and is about to return
Returning == pc = "vol" /\ vol_k >= n_vols

\* the last from_file call has returned / has raised
Returned == pc = "idle" /\ outcome = "returned"

Failed == pc = "idle" /\ outcome = "raised"

\* the volumes the current call has appended
Appended == SubSeq(vols, Len(pre.vols) + 1, Len(vols))

\* the volume count the header declares: its 5th integer when it has one
DeclaredVolumes == IF Len(header) = 5 THEN header[5] ELSE 1

RECURSIVE Sum(_)
Sum(ns) == IF ns = <<>> THEN 0 ELSE ns[1] + Sum(Tail(ns))

\* the number of values the runs stand for
SumLengths(runs) == Sum([k \in 1..Len(runs) |-> runs[k][1]])

\* the values the runs stand for, run after run
RECURSIVE Expand(_)
Expand(runs) ==
    IF runs = <<>> THEN <<>>
    ELSE [k \in 1..runs[1][1] |-> runs[1][2]] \o Expand(Tail(runs))

\* The rows read are the encoding of one volume of the header's shape:
\* all of the region, run lengths in 1..255, no run across two slices.
IsEncoding ==
    /\ DeclaredVolumes = 1
    /\ Len(maps_rle) = n_pairs
    /\ \A k \in 1..Len(maps_rle) : maps_rle[k][1] \in 1..255
    /\ SumLengths(maps_rle) = height * width * depth
    /\ \A k \in 1..Len(maps_rle) :
         LET before == SumLengths(SubSeq(maps_rle, 1, k - 1))
         IN before \div (width * height)
              = (before + maps_rle[k][1] - 1) \div (width * height)

\* the volume v holds, cell by cell, the values of the runs read
HoldsRuns(v) ==
    /\ v.shape = <<height, width, depth>>
    /\ \A r \in 0..(height - 1), c \in 0..(width - 1), z \in 0..(depth - 1) :
         Cell(v, r, c, z)
           = Expand(maps_rle)[z * width * height + r * width + c + 1]

-----------------------------------------------------------------------------
(* The claims.                                                             *)

\* C1: when from_file has read a whole header, a version_code >= 20050829 gives
\* version 7, 5 header integers and n_vols equal to the 5th of them, and
\* that many volumes are decoded; a smaller version_code gives version 6,
\* 4 header integers and n_vols 1.
C1_VolumeCountFromHeader ==
    /\ pc \in {"objects", "vol", "slice", "pixel", "run"} /\ ~eof =>
         IF version_code >= VersionThreshold
         THEN version = 7 /\ Len(header) = 5 /\ n_vols = header[5]
         ELSE version = 6 /\ Len(header) = 4 /\ n_vols = 1
    /\ Returning /\ version_code >= VersionThreshold =>
         Len(Appended) = header[5]

\* C2: when from_file returns from a file that encodes one dense volume
\* (runs of length 1..255, none across two slices), get_data(0) is that
\* volume: cell (r, c, z) holds the value of the run covering position
\* r*width + c of slice z.
C2_RoundTrip ==
    Returning /\ IsEncoding =>
       /\ GetDataOf(0).kind = "value"
       /\ HoldsRuns(GetDataOf(0).vol)

\* The round trip on a new instance (the first from_file call): the volume
\* the call appended, which get_data(0) then returns, holds the runs.
RoundTripOnNewInstance ==
    Returning /\ IsEncoding /\ calls = 1 =>
       /\ GetDataOf(0).kind = "value"
       /\ HoldsRuns(GetDataOf(0).vol)

\* C3: a run longer than what is left of the current slice makes from_file
\* raise at once: the run is not cut to fit, nothing of it reaches the next
\* slice, no volume is appended and the call does not return normally.
C3_RunOverflowFails ==
    [][ (pc = "run" /\ mult > width * height - pixel_num) =>
          /\ pc' = "idle" /\ outcome' = "raised" /\ exc' = BroadcastError
          /\ vols' = vols ]_vars

\* C3's case: from_file has raised on a run that did not fit its slice,
\* after the header was read and with no volume appended.
C3_Witness ==
    /\ Failed /\ exc = BroadcastError
    /\ width * height > 0 /\ vols = pre.vols

\* the number of values slice z of volume v has received from the runs
Received(v, z) ==
    IF \E k \in 1..Len(filled) : filled[k].vol = v /\ filled[k].z = z
    THEN Sum(filled[CHOOSE k \in 1..Len(filled) :
                      filled[k].vol = v /\ filled[k].z = z].hits)
    ELSE 0

\* C4: when the run pairs are exhausted while a slice of a declared volume
\* still lacks values, from_file raises and appends no volume for it; so a
\* call on a whole file that returns has given every slice of every
\* declared volume its width*height values.
C4_ExhaustedRunsFail ==
    /\ [][ (pc = "pixel" /\ pixel_num < width * height /\ i >= n_pairs) =>
             /\ pc' = "idle" /\ outcome' = "raised" /\ vols' = vols ]_vars
    /\ [](Returning /\ ~eof =>
            \A v \in 0..(DeclaredVolumes - 1), z \in 0..(depth - 1) :
               Received(v, z) = width * height)

\* The part of C4 that does not rest on the declared volume count: running
\* out of rows in the middle of a slice raises IndexError and appends
\* nothing.
ExhaustedRunsRaise ==
    [][ (pc = "pixel" /\ pixel_num < width * height /\ i >= n_pairs) =>
          /\ pc' = "idle" /\ outcome' = "raised" /\ exc' = "IndexError"
          /\ vols' = vols ]_vars

\* C5: a from_file call in which a fixed-width read of the header or of an
\* object record found the file ended does not return normally.
C5_TruncatedInputFails == ~(Returning /\ eof)

\* C6: when from_file has raised, the attributes of the map are what they
\* were before the call.
C6_FailureLeavesMapUnchanged == Failed => Attributes = pre

\* C7: when from_file has returned, objects has n_objects elements and vols
\* has n_vols elements.
C7_ListLengthsMatchCounts ==
    Returned => Len(objects) = n_objects /\ Len(vols) = n_vols

\* C8: a get_data call leaves the attributes of the map as they are; with
\* an index at or past the number of decoded volumes it raises IndexError,
\* and with an index idx in [0, that number) it returns the volume that
\* was decoded idx-th.
C8_GetData ==
    [][ (pc = "idle" /\ got' # got /\ got'.kind # "none") =>
          /\ self_vars' = self_vars
          /\ (got'.idx >= Len(decoded) => got'.kind = "IndexError")
          /\ (got'.idx >= 0 /\ got'.idx < Len(decoded) =>
                got'.kind = "value" /\ got'.vol = decoded[got'.idx + 1])
      ]_vars

\* C8's case: get_data was called with an index past the decoded volumes
\* of a map that holds some.
C8_Witness ==
    /\ pc = "idle" /\ got.kind = "IndexError"
    /\ Len(vols) > 0 /\ got.idx >= Len(vols)

\* every position of a stored slice was written by exactly one run
WrittenOnce(f) ==
    /\ Len(f.hits) = width * height
    /\ \A j \in 1..Len(f.hits) : f.hits[j] = 1

\* C9: in a decode, the slices are stored volume by volume in increasing
\* depth order, every position of a stored slice having been written by
\* exactly one run; a call that returns has stored all depth slices of
\* each volume it appended, and the appended volume holds them; a run is
\* fetched for a volume only when the volumes before it are complete; and
\* the run index never moves backward and moves one row at a time.
C9_EachCellWrittenOnce ==
    /\ [](pc \in {"vol", "slice", "pixel", "run"} =>
            /\ \A k \in 1..Len(filled) :
                  /\ filled[k].vol = (k - 1) \div depth
                  /\ filled[k].z = (k - 1) % depth
                  /\ WrittenOnce(filled[k])
            /\ pc # "vol" =>
                  /\ Len(filled) = vol_k * depth + slice_num
                  /\ Len(Appended) = vol_k)
    /\ [](Returning =>
            /\ Len(filled) = Len(Appended) * depth
            /\ \A v \in 1..Len(Appended) :
                  /\ Appended[v].shape = <<height, width, depth>>
                  /\ \A r \in 0..(height - 1), c \in 0..(width - 1),
                        z \in 0..(depth - 1) :
                        Cell(Appended[v], r, c, z)
                          = filled[(v - 1) * depth + z + 1].values[r * width + c + 1])
    /\ [][ (pc \in {"vol", "slice", "pixel", "run"} /\ pc' # "idle") =>
             i' = i \/ i' = i + 1 ]_vars

\* C9's case: a decode of two slices of four cells is about to return,
\* having used more than one run for a slice and a run of length 0.
C9_Witness ==
    /\ Returning /\ width = 2 /\ height = 2 /\ depth = 2
    /\ Len(maps_rle) > 2
    /\ \E k \in 1..Len(maps_rle) : maps_rle[k][1] = 0

\* a from_file call, once begun, ends
Terminates == (pc # "idle") ~> (pc = "idle")

\* an iteration of the inner loop moves the run index by one, whatever the
\* run length
OneRowPerIteration == [][ (pc = "run" /\ pc' = "pixel") => i' = i + 1 ]_vars

\* C10: the decoding loops end, with all declared volumes appended or with
\* an exception, and every iteration of the inner loop consumes one row,
\* runs of length 0 included.
C10_DecodeTerminates ==
    /\ Terminates
    /\ OneRowPerIteration
    /\ [](Returning /\ ~eof => Len(Appended) >= DeclaredVolumes)

====
